---- MODULE Spec2Model ----
(***************************************************************************)
(* A model of migrate_wrapper: the wrapper facade (wrapper.py), the        *)
(* command invoker (command.py) and the migration file scanner             *)
(* (scanner.py).  Texts (process output, file names) are sequences of      *)
(* one-character strings, so that trimming, lower-casing, substring search *)
(* and the regular expressions of the code are computed, not assumed.      *)
(***************************************************************************)
EXTENDS Integers, Sequences, FiniteSets, TLC

VARIABLES files,   \* the names of the files in the migrations directory
          call,    \* the public operation called last, with its arguments
          procs,   \* the external processes that call ran, in order
          nscans,  \* the number of directory scans that call made
          ret,     \* what that call returned or raised
          wrapper, \* the MigrateWrapper: whether it is constructed, and from what
          tracked, \* the state the migrate tool tracks: (version, dirty)
          forced   \* what has been called since the last successful force

vars == <<files, call, procs, nscans, ret, wrapper, tracked, forced>>

(***************************************************************************)
(* Characters and the str methods the code uses.                           *)
(***************************************************************************)
UpperSeq == <<"A","B","C","D","E","F","G","H","I","J","K","L","M",
              "N","O","P","Q","R","S","T","U","V","W","X","Y","Z">>

LowerSeq == <<"a","b","c","d","e","f","g","h","i","j","k","l","m",
              "n","o","p","q","r","s","t","u","v","w","x","y","z">>

DigitSeq == <<"0","1","2","3","4","5","6","7","8","9">>

Range(s) == {s[i] : i \in DOMAIN s}

IsDigit(c) == c \in Range(DigitSeq)

\* \w of the re module: a letter, a digit or the underscore
IsWordChar(c) == c \in Range(UpperSeq) \cup Range(LowerSeq) \cup Range(DigitSeq) \cup {"_"}

\* the characters str.strip() removes
IsSpace(c) == c \in {" ", "\n", "\t", "\r"}

LowerChar(c) ==
    IF c \in Range(UpperSeq)
    THEN LowerSeq[CHOOSE i \in DOMAIN UpperSeq : UpperSeq[i] = c]
    ELSE c

\* str.lower()
Lower(s) == [i \in DOMAIN s |-> LowerChar(s[i])]

\* str.strip(): the text without its leading and trailing white space
Strip(s) ==
    LET keep == {i \in DOMAIN s : ~IsSpace(s[i])}
    IN  IF keep = {} THEN <<>>
        ELSE LET lo == CHOOSE i \in keep : \A j \in keep : i <= j
                 hi == CHOOSE i \in keep : \A j \in keep : j <= i
             IN  SubSeq(s, lo, hi)

\* sub in s
Contains(s, sub) ==
    \E i \in 1..(Len(s) - Len(sub) + 1) : SubSeq(s, i, i + Len(sub) - 1) = sub

\* s.endswith(sub)
EndsWith(s, sub) ==
    /\ Len(sub) <= Len(s)
    /\ SubSeq(s, Len(s) - Len(sub) + 1, Len(s)) = sub

DigitVal(c) == (CHOOSE i \in DOMAIN DigitSeq : DigitSeq[i] = c) - 1

\* int(digits) for a text of decimal digits
RECURSIVE ParseInt(_)
ParseInt(ds) ==
    IF ds = <<>> THEN 0
    ELSE 10 * ParseInt(SubSeq(ds, 1, Len(ds) - 1)) + DigitVal(ds[Len(ds)])

\* str(n) for an integer n
RECURSIVE NatToStr(_)
NatToStr(n) ==
    IF n < 10 THEN <<DigitSeq[n + 1]>>
    ELSE NatToStr(n \div 10) \o <<DigitSeq[(n % 10) + 1]>>

IntToStr(n) == IF n < 0 THEN <<"-">> \o NatToStr(-n) ELSE NatToStr(n)

\* Optional[int]: None is the empty set, a value v is {v}
None == {}
Some(v) == {v}

(***************************************************************************)
(* re.search(r"\b(\d+)\b", output): the left-most position where a word    *)
(* boundary, one or more digits and a word boundary match.  \d+ is greedy  *)
(* and backtracks, but no boundary lies between two digits, so a match is  *)
(* a maximal run of digits with no word character on either side.          *)
(***************************************************************************)
WordBoundary(s, i) ==
    \* between s[i] and s[i+1]; outside the text counts as a non-word character
    LET before == i >= 1 /\ IsWordChar(s[i])
        after  == i + 1 <= Len(s) /\ IsWordChar(s[i + 1])
    IN  before # after

VersionMatchAt(s, i, j) ==
    /\ i <= j
    /\ \A k \in i..j : IsDigit(s[k])
    /\ WordBoundary(s, i - 1)
    /\ WordBoundary(s, j)

\* the (start, end) pairs at which the pattern matches
VersionMatches(s) ==
    {p \in (DOMAIN s) \X (DOMAIN s) : VersionMatchAt(s, p[1], p[2])}

\* match.group(1) of the search, as None or the digits
SearchVersion(s) ==
    LET ms == VersionMatches(s)
    IN  IF ms = {} THEN None
        ELSE LET first == CHOOSE p \in ms : \A q \in ms : p[1] <= q[1]
             IN  Some(ParseInt(SubSeq(s, first[1], first[2])))

(***************************************************************************)
(* A str value of the program: a literal of the source followed by a       *)
(* computed text (an f-string is both, a constant is the literal alone, a  *)
(* text read from a process is the text alone).                            *)
(***************************************************************************)
Fmt(l, t) == [lit |-> l, txt |-> t]
Lit(l) == Fmt(l, <<>>)
Txt(t) == Fmt("", t)

\* bool(s) of a str value
Truthy(s) == s.lit # "" \/ s.txt # <<>>

\* a or b, for an Optional[str] a (None or Some) and a str b
OrElse(a, b) == IF a # None /\ \E s \in a : Truthy(s) THEN CHOOSE s \in a : TRUE ELSE b

(***************************************************************************)
(* Texts an external process may write.                                    *)
(***************************************************************************)
\* "version: 3\n"
T_version3 == <<"v","e","r","s","i","o","n",":"," ","3","\n">>

\* "1\n"
T_1 == <<"1","\n">>

\* "2\n"
T_2 == <<"2","\n">>

\* "3 (dirty)\n"
T_3dirty == <<"3"," ","(","d","i","r","t","y",")","\n">>

\* "version: 3 (dirty)\n"
T_version3dirty == <<"v","e","r","s","i","o","n",":"," ","3"," ","(","d","i","r","t","y",")","\n">>

\* "no migration\n"
T_nomigration == <<"n","o"," ","m","i","g","r","a","t","i","o","n","\n">>

\* " \n"
T_blank == <<" ","\n">>

\* "v3\n"
T_v3 == <<"v","3","\n">>

\* "3a 12\n"
T_3a12 == <<"3","a"," ","1","2","\n">>

\* "2 (Dirty)\n"
T_2Dirty == <<"2"," ","(","D","i","r","t","y",")","\n">>

\* "error: Dirty database version 1. Fix and force version.\n"
T_errdirty == <<"e","r","r","o","r",":"," ","D","i","r","t","y"," ","d","a","t","a","b","a","s","e"," ","v","e","r","s","i","o","n"," ","1","."," ","F","i","x"," ","a","n","d"," ","f","o","r","c","e"," ","v","e","r","s","i","o","n",".","\n">>

\* "DIRTY\n"
T_DIRTY == <<"D","I","R","T","Y","\n">>

\* "1/u mark_dirty_rows (3ms)\n"
T_logdirty == <<"1","/","u"," ","m","a","r","k","_","d","i","r","t","y","_","r","o","w","s"," ","(","3","m","s",")","\n">>

\* "error: no migration found for version 9\n"
T_errnomig == <<"e","r","r","o","r",":"," ","n","o"," ","m","i","g","r","a","t","i","o","n"," ","f","o","u","n","d"," ","f","o","r"," ","v","e","r","s","i","o","n"," ","9","\n">>

\* "no change\n"
T_nochange == <<"n","o"," ","c","h","a","n","g","e","\n">>

\* "error: open /m/x.sql: file does not exist\n"
T_errfile == <<"e","r","r","o","r",":"," ","o","p","e","n"," ","/","m","/","x",".","s","q","l",":"," ","f","i","l","e"," ","d","o","e","s"," ","n","o","t"," ","e","x","i","s","t","\n">>

\* "error: dial tcp: connection refused\n"
T_errconn == <<"e","r","r","o","r",":"," ","d","i","a","l"," ","t","c","p",":"," ","c","o","n","n","e","c","t","i","o","n"," ","r","e","f","u","s","e","d","\n">>

\* "error: syntax error\n"
T_errsyntax == <<"e","r","r","o","r",":"," ","s","y","n","t","a","x"," ","e","r","r","o","r","\n">>

\* "Failed to create migration"
T_errcreate == <<"F","a","i","l","e","d"," ","t","o"," ","c","r","e","a","t","e"," ","m","i","g","r","a","t","i","o","n">>

\* "dirty"
T_dirty == <<"d","i","r","t","y">>

\* the length up to which every text over ShortAlphabet is tried
MaxTextLen == 3

ShortAlphabet == {"1", "0", "v", " "}

\* the texts over ShortAlphabet of length n or less
RECURSIVE TextsUpTo(_)
TextsUpTo(n) ==
    IF n = 0 THEN {<<>>}
    ELSE LET shorter == TextsUpTo(n - 1)
         IN  shorter \cup {Append(t, c) : t \in shorter, c \in ShortAlphabet}

ShortTexts == TextsUpTo(MaxTextLen)

\* what the version subcommand is seen to print, and nearby texts
ReportTexts ==
    {<<>>, T_blank, T_version3, T_1, T_2, T_3dirty, T_version3dirty,
     T_nomigration, T_v3, T_3a12, T_2Dirty, T_DIRTY, T_errconn}

VersionTexts == ReportTexts \cup ShortTexts

\* what a mutating subcommand is seen to print on standard error
ErrTexts ==
    {<<>>, T_blank, T_errdirty, T_DIRTY, T_logdirty, T_errnomig, T_nochange,
     T_errfile, T_errconn, T_errsyntax}

\* the longest stderr, in pieces, that parse_error is called with on its own
MaxPieces == 2

\* pieces of stderr: the phrases parse_error looks for, in several letter
\* cases, and text it does not look for
Pieces ==
    {<<"D","i","r","t","y"," ","d","a","t","a","b","a","s","e">>,
     <<"n","o"," ","m","i","g","r","a","t","i","o","n">>,
     <<"A","L","R","E","A","D","Y"," ","A","T"," ","T","H","E"," ","L","A","T","E","S","T">>,
     <<"f","i","l","e"," ","d","o","e","s"," ","n","o","t"," ","e","x","i","s","t">>,
     <<"C","o","n","n","e","c","t","i","o","n"," ","R","e","f","u","s","e","d">>,
     <<" ","x","\n">>, <<" ">>}

RECURSIVE PiecesUpTo(_)
PiecesUpTo(n) ==
    IF n = 0 THEN {<<>>}
    ELSE LET shorter == PiecesUpTo(n - 1)
         IN  shorter \cup {t \o c : t \in shorter, c \in Pieces}

ParseTexts == PiecesUpTo(MaxPieces)

\* exit codes: success, failure, killed by a signal
ReturnCodes == {0, 1, -9}

(***************************************************************************)
(* command.py                                                              *)
(***************************************************************************)
\* The outcome of subprocess.run(args, capture_output=True, text=True,
\* check=False): a CompletedProcess, or an OSError raised because the
\* program could not be started.
Completed(rc, out, err) ==
    [raised |-> FALSE, returncode |-> rc, stdout |-> out, stderr |-> err]

SpawnFailed == [raised |-> TRUE, returncode |-> 0, stdout |-> <<>>, stderr |-> <<>>]

\* the configuration the wrapper was constructed with
command_path == Lit("migrate")
database_url == Lit("sqlite://test.db")
migrations_path == Lit("/tmp/migrations")

\* _build_base_args without the -path flag in front of the directory
build_base_args_without_path_flag ==
    <<command_path, Lit("-database"), wrapper.database_url, migrations_path>>

build_base_args ==
    <<command_path, Lit("-database"), wrapper.database_url, Lit("-path"), migrations_path>>

\* one call of execute: the argument list and what came back
execute(args, r) == [args |-> args, result |-> r]

\* parse_error with "no migration" looked for before "dirty database"
parse_error_no_migration_first(stderr) ==
    IF Contains(Lower(stderr), <<"n","o"," ","m","i","g","r","a","t","i","o","n">>)
    THEN Some(Lit("No migrations found"))
    ELSE IF Contains(Lower(stderr), <<"d","i","r","t","y"," ","d","a","t","a","b","a","s","e">>)
    THEN Some(Lit("Database is in dirty state"))
    ELSE IF Contains(Lower(stderr), <<"a","l","r","e","a","d","y"," ","a","t"," ","t","h","e"," ","l","a","t","e","s","t">>)
    THEN Some(Lit("Already at latest version"))
    ELSE IF Contains(Lower(stderr), <<"f","i","l","e"," ","d","o","e","s"," ","n","o","t"," ","e","x","i","s","t">>)
    THEN Some(Lit("Migration file not found"))
    ELSE IF Contains(Lower(stderr), <<"c","o","n","n","e","c","t","i","o","n"," ","r","e","f","u","s","e","d">>)
    THEN Some(Lit("Database connection failed"))
    ELSE IF stderr # <<>> THEN Some(Txt(Strip(stderr))) ELSE None

parse_error(stderr) ==
    IF Contains(Lower(stderr), <<"d","i","r","t","y"," ","d","a","t","a","b","a","s","e">>)
    THEN Some(Lit("Database is in dirty state"))
    ELSE IF Contains(Lower(stderr), <<"n","o"," ","m","i","g","r","a","t","i","o","n">>)
    THEN Some(Lit("No migrations found"))
    ELSE IF Contains(Lower(stderr), <<"a","l","r","e","a","d","y"," ","a","t"," ","t","h","e"," ","l","a","t","e","s","t">>)
    THEN Some(Lit("Already at latest version"))
    ELSE IF Contains(Lower(stderr), <<"f","i","l","e"," ","d","o","e","s"," ","n","o","t"," ","e","x","i","s","t">>)
    THEN Some(Lit("Migration file not found"))
    ELSE IF Contains(Lower(stderr), <<"c","o","n","n","e","c","t","i","o","n"," ","r","e","f","u","s","e","d">>)
    THEN Some(Lit("Database connection failed"))
    ELSE IF stderr # <<>> THEN Some(Txt(Strip(stderr))) ELSE None

(***************************************************************************)
(* What a call of the facade comes to: a value returned or an exception    *)
(* raised, and the processes it ran.                                       *)
(***************************************************************************)
\* One slot for each type a call may return, so that every result has the
\* same shape: kind says whether the call returned or raised, type names the
\* class of the value returned and exc the class of the exception raised.
NoResult ==
    [kind |-> "none", type |-> "", exc |-> "", message |-> Fmt("", <<>>),
     version |-> {}, result |-> <<>>, info |-> <<>>, migration |-> <<>>,
     listing |-> <<>>, validation |-> <<>>, gaps |-> <<>>, error_msg |-> {}]

ReturnVersion(v) == [NoResult EXCEPT !.kind = "return", !.type = "Optional[int]", !.version = v]
ReturnResult(m) == [NoResult EXCEPT !.kind = "return", !.type = "MigrationResult", !.result = <<m>>]
ReturnInfo(d) == [NoResult EXCEPT !.kind = "return", !.type = "DatabaseInfo", !.info = <<d>>]
ReturnMigration(m) == [NoResult EXCEPT !.kind = "return", !.type = "Migration", !.migration = <<m>>]
ReturnList(l) == [NoResult EXCEPT !.kind = "return", !.type = "List[Migration]", !.listing = l]
ReturnValidation(v) == [NoResult EXCEPT !.kind = "return", !.type = "ValidationResult", !.validation = <<v>>]
ReturnGaps(g) == [NoResult EXCEPT !.kind = "return", !.type = "List[int]", !.gaps = g]
ReturnWrapper == [NoResult EXCEPT !.kind = "return", !.type = "MigrateWrapper"]
ReturnErrorMsg(m) == [NoResult EXCEPT !.kind = "return", !.type = "Optional[str]", !.error_msg = m]
Raise(e, msg) == [NoResult EXCEPT !.kind = "raise", !.exc = e, !.message = msg]

Outcome(r, ps, n) == [ret |-> r, procs |-> ps, nscans |-> n]

\* models.py
MigrationResult(success, version, message, dirty) ==
    [success |-> success, version |-> version, message |-> message,
     error |-> None, dirty |-> dirty]

DatabaseInfo(version, dirty) == [version |-> version, dirty |-> dirty]

is_clean(info) == ~info.dirty

(***************************************************************************)
(* wrapper.py: version and status                                          *)
(***************************************************************************)
\* SelectOutput with the two streams taken in the other order
SelectOutput_stderr_first(r) ==
    LET output == Strip(r.stderr)
    IN  IF output = <<>> /\ r.stdout # <<>> THEN Strip(r.stdout) ELSE output

\* output = (result.stdout or "").strip()
\* if not output and result.stderr: output = result.stderr.strip()
SelectOutput(r) ==
    LET output == Strip(r.stdout)
    IN  IF output = <<>> /\ r.stderr # <<>> THEN Strip(r.stderr) ELSE output

\* version(), given what its process does
version(q) ==
    LET p == execute(build_base_args \o <<Lit("version")>>, q)
    IN  IF q.raised THEN Outcome(Raise("OSError", Lit("")), <<p>>, 0)
        ELSE IF q.returncode = 0 /\ SelectOutput(q) # <<>>
        THEN Outcome(ReturnVersion(SearchVersion(SelectOutput(q))), <<p>>, 0)
        ELSE Outcome(ReturnVersion(None), <<p>>, 0)

\* status with the dirty flag searched in both streams, not in the selected one
status_both_streams(q) ==
    LET p == execute(build_base_args \o <<Lit("version")>>, q)
    IN  IF q.raised THEN Outcome(Raise("OSError", Lit("")), <<p>>, 0)
        ELSE IF q.returncode = 0 /\ SelectOutput(q) # <<>>
        THEN Outcome(ReturnInfo(DatabaseInfo(SearchVersion(SelectOutput(q)),
                                         \/ Contains(Lower(q.stdout), T_dirty)
                                         \/ Contains(Lower(q.stderr), T_dirty))),
                     <<p>>, 0)
        ELSE Outcome(ReturnInfo(DatabaseInfo(None, FALSE)), <<p>>, 0)

\* status with the dirty flag searched whatever the exit code is
status_dirty_on_any_exit(q) ==
    LET p == execute(build_base_args \o <<Lit("version")>>, q)
    IN  IF q.raised THEN Outcome(Raise("OSError", Lit("")), <<p>>, 0)
        ELSE IF q.returncode = 0 /\ SelectOutput(q) # <<>>
        THEN Outcome(ReturnInfo(DatabaseInfo(SearchVersion(SelectOutput(q)),
                                         Contains(Lower(SelectOutput(q)), T_dirty))),
                     <<p>>, 0)
        ELSE Outcome(ReturnInfo(DatabaseInfo(None, Contains(Lower(SelectOutput(q)), T_dirty))),
                     <<p>>, 0)

\* status(), given what its process does
status(q) ==
    LET p == execute(build_base_args \o <<Lit("version")>>, q)
    IN  IF q.raised THEN Outcome(Raise("OSError", Lit("")), <<p>>, 0)
        ELSE IF q.returncode = 0 /\ SelectOutput(q) # <<>>
        THEN Outcome(ReturnInfo(DatabaseInfo(SearchVersion(SelectOutput(q)),
                                         Contains(Lower(SelectOutput(q)), T_dirty))),
                     <<p>>, 0)
        ELSE Outcome(ReturnInfo(DatabaseInfo(None, FALSE)), <<p>>, 0)

(***************************************************************************)
(* wrapper.py: up, down, goto, force, drop.  Each takes its arguments, the *)
(* outcome r of its own subcommand and the outcome q that a follow-up      *)
(* version query has if the code gets to issue one.                        *)
(***************************************************************************)
\* is_dirty without the lower(): "dirty" in result.stderr
is_dirty_case_sensitive(stderr) == Contains(stderr, T_dirty)

\* "dirty" in result.stderr.lower()
is_dirty(stderr) == Contains(Lower(stderr), T_dirty)

\* WithVersion that reports no version instead of asking the tool for it
WithVersion_unqueried(p, q, success, message, dirty) ==
    Outcome(ReturnResult(MigrationResult(success, None, message, dirty)), <<p>>, 0)

\* MigrationResult(..., version=self.version(), ...) after process p: the
\* query runs first, and what it raises leaves the caller
WithVersion(p, q, success, message, dirty) ==
    LET v == version(q)
    IN  IF v.ret.kind = "raise" THEN Outcome(v.ret, <<p>> \o v.procs, 0)
        ELSE Outcome(ReturnResult(MigrationResult(success, v.ret.version, message, dirty)),
                     <<p>> \o v.procs, 0)

\* the else branch without the raise: the dirty flag goes into the result
FailureOrDirty_returns_dirty(p, r, q, default) ==
    WithVersion(p, q, FALSE, OrElse(parse_error(r.stderr), default), is_dirty(r.stderr))

\* the else branch with the version asked for before the dirty test
FailureOrDirty_queries_first(p, r, q, default) ==
    LET v == version(q)
    IN  IF v.ret.kind = "raise" THEN Outcome(v.ret, <<p>> \o v.procs, 0)
        ELSE IF is_dirty(r.stderr)
        THEN Outcome(Raise("MigrateDirtyError",
                           OrElse(parse_error(r.stderr), Lit("Database is in dirty state"))),
                     <<p>> \o v.procs, 0)
        ELSE Outcome(ReturnResult(MigrationResult(FALSE, v.ret.version,
                                            OrElse(parse_error(r.stderr), default),
                                            is_dirty(r.stderr))),
                     <<p>> \o v.procs, 0)

\* the else branch of up, down and goto
FailureOrDirty(p, r, q, default) ==
    IF is_dirty(r.stderr)
    THEN Outcome(Raise("MigrateDirtyError",
                       OrElse(parse_error(r.stderr), Lit("Database is in dirty state"))),
                 <<p>>, 0)
    ELSE WithVersion(p, q, FALSE, OrElse(parse_error(r.stderr), default),
                     is_dirty(r.stderr))

\* an argument that may be absent (Optional[int]) as the arguments it adds
StepsArg(steps) == IF steps # None THEN <<Txt(IntToStr(CHOOSE n \in steps : TRUE))>> ELSE <<>>

\* up with the dirty flag of a success taken from stderr
up_dirty_from_stderr(steps, r, q) ==
    LET p == execute(build_base_args \o <<Lit("up")>> \o StepsArg(steps), r)
    IN  IF r.raised THEN Outcome(Raise("OSError", Lit("")), <<p>>, 0)
        ELSE IF r.returncode = 0
        THEN WithVersion(p, q, TRUE, Lit("Migrations applied successfully"),
                         is_dirty(r.stderr))
        ELSE FailureOrDirty(p, r, q, Lit("Migration failed"))

up(steps, r, q) ==
    LET p == execute(build_base_args \o <<Lit("up")>> \o StepsArg(steps), r)
    IN  IF r.raised THEN Outcome(Raise("OSError", Lit("")), <<p>>, 0)
        ELSE IF r.returncode = 0
        THEN WithVersion(p, q, TRUE, Lit("Migrations applied successfully"), FALSE)
        ELSE FailureOrDirty(p, r, q, Lit("Migration failed"))

\* down with "if steps:" for "if steps is not None:", so that 0 counts as absent
down_all_when_falsy(steps, r, q) ==
    LET p == execute(build_base_args \o <<Lit("down")>>
                       \o (IF steps # None /\ steps # Some(0) THEN StepsArg(steps)
                           ELSE <<Lit("-all")>>), r)
    IN  IF r.raised THEN Outcome(Raise("OSError", Lit("")), <<p>>, 0)
        ELSE IF r.returncode = 0
        THEN WithVersion(p, q, TRUE, Lit("Migrations rolled back successfully"), FALSE)
        ELSE FailureOrDirty(p, r, q, Lit("Rollback failed"))

down(steps, r, q) ==
    LET p == execute(build_base_args \o <<Lit("down")>>
                       \o (IF steps # None THEN StepsArg(steps) ELSE <<Lit("-all")>>), r)
    IN  IF r.raised THEN Outcome(Raise("OSError", Lit("")), <<p>>, 0)
        ELSE IF r.returncode = 0
        THEN WithVersion(p, q, TRUE, Lit("Migrations rolled back successfully"), FALSE)
        ELSE FailureOrDirty(p, r, q, Lit("Rollback failed"))

\* goto with "version >= 0" for "version > 0"
goto_zero_is_a_version(v, r, q) ==
    LET p == execute(build_base_args \o <<Lit("goto"), Txt(IntToStr(v))>>, r)
    IN  IF r.raised THEN Outcome(Raise("OSError", Lit("")), <<p>>, 0)
        ELSE IF r.returncode = 0
        THEN Outcome(ReturnResult(MigrationResult(TRUE, IF v >= 0 THEN Some(v) ELSE None,
                                            Fmt("Migrated to version ", IntToStr(v)), FALSE)),
                     <<p>>, 0)
        ELSE FailureOrDirty(p, r, q, Lit("Goto failed"))

goto(v, r, q) ==
    LET p == execute(build_base_args \o <<Lit("goto"), Txt(IntToStr(v))>>, r)
    IN  IF r.raised THEN Outcome(Raise("OSError", Lit("")), <<p>>, 0)
        ELSE IF r.returncode = 0
        THEN Outcome(ReturnResult(MigrationResult(TRUE, IF v > 0 THEN Some(v) ELSE None,
                                            Fmt("Migrated to version ", IntToStr(v)), FALSE)),
                     <<p>>, 0)
        ELSE FailureOrDirty(p, r, q, Lit("Goto failed"))

\* force that reports success whatever the exit code is
force_ignores_exit_code(v, r, q) ==
    LET p == execute(build_base_args \o <<Lit("force"), Txt(IntToStr(v))>>, r)
    IN  IF r.raised THEN Outcome(Raise("OSError", Lit("")), <<p>>, 0)
        ELSE Outcome(ReturnResult(MigrationResult(TRUE, IF v > 0 THEN Some(v) ELSE None,
                                            Fmt("Forced version to ", IntToStr(v)), FALSE)),
                     <<p>>, 0)

\* force with the failure branch of goto, which promotes "dirty" to an error
force_like_goto(v, r, q) ==
    LET p == execute(build_base_args \o <<Lit("force"), Txt(IntToStr(v))>>, r)
    IN  IF r.raised THEN Outcome(Raise("OSError", Lit("")), <<p>>, 0)
        ELSE IF r.returncode = 0
        THEN Outcome(ReturnResult(MigrationResult(TRUE, IF v > 0 THEN Some(v) ELSE None,
                                            Fmt("Forced version to ", IntToStr(v)), FALSE)),
                     <<p>>, 0)
        ELSE FailureOrDirty(p, r, q, Lit("Force failed"))

force(v, r, q) ==
    LET p == execute(build_base_args \o <<Lit("force"), Txt(IntToStr(v))>>, r)
    IN  IF r.raised THEN Outcome(Raise("OSError", Lit("")), <<p>>, 0)
        ELSE IF r.returncode = 0
        THEN Outcome(ReturnResult(MigrationResult(TRUE, IF v > 0 THEN Some(v) ELSE None,
                                            Fmt("Forced version to ", IntToStr(v)), FALSE)),
                     <<p>>, 0)
        ELSE WithVersion(p, q, FALSE, OrElse(parse_error(r.stderr), Lit("Force failed")),
                         FALSE)

\* drop that reports no version when it fails
drop_failure_without_version(f, r, q) ==
    LET p == execute(build_base_args \o <<Lit("drop")>>
                       \o (IF f THEN <<Lit("-f")>> ELSE <<>>), r)
    IN  IF r.raised THEN Outcome(Raise("OSError", Lit("")), <<p>>, 0)
        ELSE IF r.returncode = 0
        THEN Outcome(ReturnResult(MigrationResult(TRUE, None,
                                            Lit("Database dropped successfully"), FALSE)),
                     <<p>>, 0)
        ELSE Outcome(ReturnResult(MigrationResult(FALSE, None,
                                            OrElse(parse_error(r.stderr), Lit("Drop failed")),
                                            FALSE)),
                     <<p>>, 0)

drop(f, r, q) ==
    LET p == execute(build_base_args \o <<Lit("drop")>>
                       \o (IF f THEN <<Lit("-f")>> ELSE <<>>), r)
    IN  IF r.raised THEN Outcome(Raise("OSError", Lit("")), <<p>>, 0)
        ELSE IF r.returncode = 0
        THEN Outcome(ReturnResult(MigrationResult(TRUE, None,
                                            Lit("Database dropped successfully"), FALSE)),
                     <<p>>, 0)
        ELSE WithVersion(p, q, FALSE, OrElse(parse_error(r.stderr), Lit("Drop failed")),
                         FALSE)

(***************************************************************************)
(* scanner.py.  A file of the migrations directory is its name; a Path     *)
(* that may be None is the empty sequence or the one-element sequence of   *)
(* the name.                                                               *)
(***************************************************************************)
\* "1_a.up.sql"
F_1a_up == <<"1","_","a",".","u","p",".","s","q","l">>

\* "1_a.down.sql"
F_1a_down == <<"1","_","a",".","d","o","w","n",".","s","q","l">>

\* "001_b.up.sql"
F_001b_up == <<"0","0","1","_","b",".","u","p",".","s","q","l">>

\* "2_c.down.sql"
F_2c_down == <<"2","_","c",".","d","o","w","n",".","s","q","l">>

\* "3_c.up.sql"
F_3c_up == <<"3","_","c",".","u","p",".","s","q","l">>

\* "3_d.down.sql"
F_3d_down == <<"3","_","d",".","d","o","w","n",".","s","q","l">>

\* "5_e.up.sql"
F_5e_up == <<"5","_","e",".","u","p",".","s","q","l">>

\* "readme.sql"
F_readme == <<"r","e","a","d","m","e",".","s","q","l">>

\* the names a migrations directory is populated from
FilePool ==
    {F_1a_up, F_1a_down, F_001b_up, F_2c_down, F_3c_up, F_3d_down, F_5e_up,
     F_readme}

\* the number of leading digits of a file name
RECURSIVE LeadingDigits(_)
LeadingDigits(f) ==
    IF f = <<>> \/ ~IsDigit(Head(f)) THEN 0 ELSE 1 + LeadingDigits(Tail(f))

UpSuffix == <<".","u","p",".","s","q","l">>
DownSuffix == <<".","d","o","w","n",".","s","q","l">>

\* pattern.match(file.name) for ^(\d+)_(.+)\.(up|down)\.sql$ : no match is
\* <<>>, a match is <<[version, name, direction]>> with version already
\* int(match.group(1)).  The digits end at the first "_", and the name is
\* what lies between it and the last ".up.sql" or ".down.sql".
MatchMigration(f) ==
    LET k == LeadingDigits(f)
        sfx == IF EndsWith(f, UpSuffix) THEN UpSuffix
               ELSE IF EndsWith(f, DownSuffix) THEN DownSuffix ELSE <<>>
    IN  IF /\ k >= 1
           /\ Len(f) > k
           /\ f[k + 1] = "_"
           /\ sfx # <<>>
           /\ Len(f) - Len(sfx) >= k + 2
        THEN <<[version |-> ParseInt(SubSeq(f, 1, k)),
                name |-> SubSeq(f, k + 2, Len(f) - Len(sfx)),
                direction |-> IF sfx = UpSuffix THEN "up" ELSE "down"]>>
        ELSE <<>>

\* the files self.migrations_path.glob("*.sql") yields from directory d
Glob(d) == {f \in d : EndsWith(f, <<".","s","q","l">>)}

\* the orders in which the glob may yield them: the file system decides
Orders(d) ==
    LET g == Glob(d)
        n == Cardinality(g)
    IN  {o \in [1..n -> g] : \A i, j \in 1..n : o[i] = o[j] => i = j}

\* the loop of scan over the files in order o: the dict migrations, as a
\* function from the versions seen to their data
RECURSIVE ScanLoop(_)
ScanLoop(o) ==
    IF Len(o) = 0 THEN [v \in {} |-> <<>>]
    ELSE LET before == ScanLoop(SubSeq(o, 1, Len(o) - 1))
             file == o[Len(o)]
             match == MatchMigration(file)
         IN  IF match = <<>> THEN before
             ELSE LET key == match[1].version
                      data == IF key \in DOMAIN before THEN before[key]
                              ELSE [version |-> key, name |-> match[1].name,
                                    up_file |-> <<>>, down_file |-> <<>>]
                      seen == IF match[1].direction = "up"
                              THEN [data EXCEPT !.up_file = <<file>>]
                              ELSE [data EXCEPT !.down_file = <<file>>]
                  IN  [v \in DOMAIN before \cup {key} |->
                          IF v = key THEN seen ELSE before[v]]

\* sorted(..., key=lambda m: m.version) of the values of a dict keyed by version
RECURSIVE SortedByVersion(_)
SortedByVersion(m) ==
    IF DOMAIN m = {} THEN <<>>
    ELSE LET least == CHOOSE v \in DOMAIN m : \A w \in DOMAIN m : v <= w
         IN  <<m[least]>> \o SortedByVersion([v \in DOMAIN m \ {least} |-> m[v]])

\* scan without the test data["up_file"] is not None
scan_keeps_down_only(o) == SortedByVersion(ScanLoop(o))

\* scan that keeps a version only if both of its files were seen
scan_requires_both_files(o) ==
    LET migrations == ScanLoop(o)
        kept == {v \in DOMAIN migrations :
                    migrations[v].up_file # <<>> /\ migrations[v].down_file # <<>>}
    IN  SortedByVersion([v \in kept |-> migrations[v]])

\* scan with "break" for "continue": the loop ends at the first file that
\* does not match the pattern
scan_stops_at_mismatch(o) ==
    LET stops == {i \in DOMAIN o : MatchMigration(o[i]) = <<>>}
        n == IF stops = {} THEN Len(o) ELSE (CHOOSE i \in stops : \A j \in stops : i <= j) - 1
        migrations == ScanLoop(SubSeq(o, 1, n))
        kept == {v \in DOMAIN migrations : migrations[v].up_file # <<>>}
    IN  SortedByVersion([v \in kept |-> migrations[v]])

\* scan sorted with reverse=True
scan_descending(o) ==
    LET migrations == ScanLoop(o)
        kept == {v \in DOMAIN migrations : migrations[v].up_file # <<>>}
        ascending == SortedByVersion([v \in kept |-> migrations[v]])
    IN  [i \in DOMAIN ascending |-> ascending[Len(ascending) + 1 - i]]

\* scan that names each unit after its up-file
scan_names_from_up_file(o) ==
    LET migrations == ScanLoop(o)
        kept == {v \in DOMAIN migrations : migrations[v].up_file # <<>>}
        units == SortedByVersion([v \in kept |-> migrations[v]])
    IN  [i \in DOMAIN units |->
            [units[i] EXCEPT !.name = MatchMigration(units[i].up_file[1])[1].name]]

\* scan(), the glob yielding the files in order o
scan(o) ==
    LET migrations == ScanLoop(o)
        kept == {v \in DOMAIN migrations : migrations[v].up_file # <<>>}
    IN  SortedByVersion([v \in kept |-> migrations[v]])

\* the lists scan() may return on directory d
Scans(d) == {scan(o) : o \in Orders(d)}

\* sorted(list of int)
RECURSIVE SortedInts(_)
SortedInts(l) ==
    IF l = <<>> THEN <<>>
    ELSE LET i == CHOOSE i \in DOMAIN l : \A j \in DOMAIN l : l[i] <= l[j]
         IN  <<l[i]>> \o SortedInts([k \in 1..(Len(l) - 1) |-> IF k < i THEN l[k] ELSE l[k + 1]])

\* the loop of find_gaps: for i in range(lo, hi): if i not in versions
RECURSIVE GapsLoop(_, _, _)
GapsLoop(lo, hi, versions) ==
    IF lo >= hi THEN <<>>
    ELSE (IF lo \in Range(versions) THEN <<>> ELSE <<lo>>) \o GapsLoop(lo + 1, hi, versions)

\* find_gaps without the sorted(): the range runs from the first to the last
\* version as listed
find_gaps_unsorted(migrations) ==
    IF migrations = <<>> THEN <<>>
    ELSE LET versions == [i \in DOMAIN migrations |-> migrations[i].version]
         IN  GapsLoop(versions[1], versions[Len(versions)], versions)

find_gaps(migrations) ==
    IF migrations = <<>> THEN <<>>
    ELSE LET versions == SortedInts([i \in DOMAIN migrations |-> migrations[i].version])
         IN  GapsLoop(versions[1], versions[Len(versions)], versions)

\* models.py: Migration.has_down_file in directory d
has_down_file(m, d) == m.down_file # <<>> /\ m.down_file[1] \in d

\* [x for x in l if keep(x)] for a list l and the set keep of its indexes
RECURSIVE Filter(_, _)
Filter(l, keep) ==
    IF l = <<>> THEN <<>>
    ELSE Filter(SubSeq(l, 1, Len(l) - 1), keep)
         \o (IF Len(l) \in keep THEN <<l[Len(l)]>> ELSE <<>>)

(***************************************************************************)
(* wrapper.py: list_migrations, validate_migrations, create                *)
(***************************************************************************)
\* list_migrations(), its scan returning scanned
list_migrations(scanned) == Outcome(ReturnList(scanned), <<>>, 1)

\* validate_migrations with valid decided by the gaps alone
validate_migrations_gaps_only(d, scanned) ==
    LET migrations == scanned
        gaps == find_gaps(migrations)
        missing_down == Filter(migrations,
                               {i \in DOMAIN migrations : ~has_down_file(migrations[i], d)})
        missing_down_files ==
            [i \in DOMAIN missing_down |->
                [version |-> missing_down[i].version, name |-> missing_down[i].name]]
    IN  Outcome(ReturnValidation([valid |-> Len(gaps) = 0,
                                  total_migrations |-> Len(migrations),
                                  gaps |-> gaps,
                                  missing_down_files |-> missing_down_files]),
                <<>>, 1)

\* validate_migrations() on directory d, its scan returning scanned
validate_migrations(d, scanned) ==
    LET migrations == scanned
        gaps == find_gaps(migrations)
        missing_down == Filter(migrations,
                               {i \in DOMAIN migrations : ~has_down_file(migrations[i], d)})
        missing_down_files ==
            [i \in DOMAIN missing_down |->
                [version |-> missing_down[i].version, name |-> missing_down[i].name]]
    IN  Outcome(ReturnValidation([valid |-> Len(gaps) = 0 /\ Len(missing_down) = 0,
                                  total_migrations |-> Len(migrations),
                                  gaps |-> gaps,
                                  missing_down_files |-> missing_down_files]),
                <<>>, 1)

\* create without the test of the exit code
create_ignores_exit_code(name, sequential, extension, r, scan1, scan2) ==
    LET p == execute(build_base_args \o <<Lit("create"), Lit("-ext"), extension>>
                       \o (IF sequential THEN <<Lit("-seq"), name>> ELSE <<name>>), r)
    IN  IF r.raised THEN Outcome(Raise("OSError", Lit("")), <<p>>, 0)
        ELSE IF scan2 # <<>>
        THEN Outcome(ReturnMigration(scan2[Len(scan2)]), <<p>>, 2)
        ELSE Outcome(Raise("MigrateError", Lit("Could not find created migration")),
                     <<p>>, 2)

\* create(name, sequential, extension): r is the outcome of the create
\* subcommand, scan1 and scan2 what the two scans return, both made when
\* the subcommand has exited
create(name, sequential, extension, r, scan1, scan2) ==
    LET p == execute(build_base_args \o <<Lit("create"), Lit("-ext"), extension>>
                       \o (IF sequential THEN <<Lit("-seq"), name>> ELSE <<name>>), r)
        migrations_before == {m.version : m \in Range(scan1)}
        migrations_after == scan2
        new == {i \in DOMAIN migrations_after :
                    migrations_after[i].version \notin migrations_before}
    IN  IF r.raised THEN Outcome(Raise("OSError", Lit("")), <<p>>, 0)
        ELSE IF r.returncode # 0
        THEN Outcome(Raise("MigrateError", Fmt("Failed to create migration: ", r.stderr)),
                     <<p>>, 0)
        ELSE IF new # {}
        THEN Outcome(ReturnMigration(
                         migrations_after[CHOOSE i \in new : \A j \in new : i <= j]),
                     <<p>>, 2)
        ELSE IF migrations_after # <<>>
        THEN Outcome(ReturnMigration(migrations_after[Len(migrations_after)]), <<p>>, 2)
        ELSE Outcome(Raise("MigrateError", Lit("Could not find created migration")),
                     <<p>>, 2)

(***************************************************************************)
(* The inputs tried.                                                       *)
(***************************************************************************)
\* the largest steps argument tried
MaxSteps == 2

\* the largest version argument tried
MaxVersion == 3

StepsArgs == {None} \cup {Some(n) : n \in 0..MaxSteps}

VersionArgs == (-1)..MaxVersion

\* outcomes of the version subcommand when version() or status() is called
VersionOutcomes ==
    {SpawnFailed} \cup
    {Completed(rc, o, e) : rc \in ReturnCodes,
                           o \in VersionTexts,
                           e \in ReportTexts}
    \cup {Completed(rc, o, e) : rc \in ReturnCodes, o \in {<<>>, T_blank, T_2},
                                e \in VersionTexts}

\* outcomes of a mutating subcommand
PrimaryOutcomes ==
    {SpawnFailed} \cup
    {Completed(rc, o, e) : rc \in ReturnCodes, o \in {<<>>, T_nochange}, e \in ErrTexts}

\* outcomes of the create subcommand
CreateOutcomes ==
    {SpawnFailed, Completed(1, <<>>, T_errcreate), Completed(1, <<>>, <<>>),
     Completed(0, <<>>, <<>>)}

\* the files the create subcommand is taken to write
CreatedSets ==
    {{}, {F_1a_up, F_1a_down}, {F_3c_up, F_3d_down}, {F_5e_up}, {F_2c_down}, {F_readme}}

\* the most files a migrations directory holds
MaxFiles == 3

Directories == {d \in SUBSET FilePool : Cardinality(d) <= MaxFiles}

\* the longest list find_gaps is given, and the largest version in it
MaxUnits == 3

MaxUnitVersion == 5

\* a unit of version v, as find_gaps reads it
Unit(v) == [version |-> v, name |-> <<"m">>, up_file |-> <<F_readme>>, down_file |-> <<>>]

RECURSIVE UnitListsUpTo(_)
UnitListsUpTo(n) ==
    IF n = 0 THEN {<<>>}
    ELSE LET shorter == UnitListsUpTo(n - 1)
         IN  shorter \cup {Append(l, Unit(v)) : l \in shorter, v \in 1..MaxUnitVersion}

UnitLists == UnitListsUpTo(MaxUnits)

\* outcomes of the follow-up version query
QueryOutcomes ==
    {SpawnFailed, Completed(1, <<>>, T_errconn), Completed(0, T_version3, <<>>),
     Completed(0, <<>>, T_1), Completed(0, T_nomigration, <<>>),
     Completed(0, T_2, T_1)}

(***************************************************************************)
(* The migrate tool as a state machine that tracks (version, dirty), as    *)
(* the tool mocked in test_dirty_state_recovery does.                      *)
(***************************************************************************)
\* a tracked state; version 0 stands for "no migration applied"
Tracked(v, d) == [version |-> v, dirty |-> d]

NoMigration == Tracked(0, FALSE)

\* the line the version subcommand prints for a tracked state
VersionLine(t, prefixed) ==
    (IF prefixed THEN <<"v","e","r","s","i","o","n",":"," ">> ELSE <<>>)
        \o IntToStr(t.version)
        \o (IF t.dirty THEN <<" ","(","d","i","r","t","y",")">> ELSE <<>>)
        \o <<"\n">>

\* the version subcommand: "version: N" on stdout or "N" on stderr, and
\* "no migration", as a report or as an error, when no migration is applied
VersionReports(t) ==
    IF t.version = 0
    THEN {Completed(0, T_nomigration, <<>>), Completed(1, <<>>, T_nomigration)}
    ELSE {Completed(0, VersionLine(t, TRUE), <<>>),
          Completed(0, <<>>, VersionLine(t, FALSE))}

\* a run of a subcommand: how the process ends and the state it leaves
Run(r, t) == [result |-> r, db |-> t]

\* a dirty state makes the tool refuse to migrate
Refused(t) == {Run(Completed(1, <<>>, T_errdirty), t)}

\* migrations applied up or down to one of the targets
Migrated(targets) == {Run(Completed(0, <<>>, <<>>), Tracked(w, FALSE)) : w \in targets}

\* a migration that failed half-way leaves its version marked dirty
Interrupted(targets) ==
    {Run(Completed(1, <<>>, T_errsyntax), Tracked(w, TRUE)) : w \in targets \ {0}}

ToolUp(t) ==
    IF t.dirty THEN Refused(t)
    ELSE Migrated(t.version..MaxVersion) \cup Interrupted((t.version + 1)..MaxVersion)

ToolDown(t) ==
    IF t.dirty THEN Refused(t)
    ELSE Migrated(0..t.version) \cup Interrupted(1..t.version)

ToolGoto(t, v) ==
    IF t.dirty THEN Refused(t)
    ELSE IF v < 0 THEN {Run(Completed(1, <<>>, T_errnomig), t)}
    ELSE Migrated({v}) \cup Interrupted(1..MaxVersion)

\* a successful force v records (v, clean); a negative v clears the version
ToolForce(t, v) ==
    {Run(Completed(0, <<>>, <<>>), Tracked(IF v < 0 THEN 0 ELSE v, FALSE)),
     Run(Completed(1, <<>>, T_errconn), t)}

ToolDrop(t) ==
    {Run(Completed(0, <<>>, <<>>), NoMigration), Run(Completed(1, <<>>, T_errconn), t)}

\* the calls since the last force that reported success: that force's version
\* while a status is still to come (pending), whether up, down, goto, drop or
\* force was called since (touched), whether the tool was dirty and a status
\* had said so when the force was called (from_dirty), and whether a status
\* has reported dirty since (seen_dirty)
NoForce ==
    [version |-> None, pending |-> FALSE, touched |-> FALSE, from_dirty |-> FALSE,
     seen_dirty |-> FALSE]

Touch(h) == IF h.pending THEN [h EXCEPT !.touched = TRUE] ELSE h

(***************************************************************************)
(* The calls of the public operations.                                     *)
(***************************************************************************)
\* the arguments of a call, one field for each parameter of the operations
NoArgs ==
    [steps |-> None, version |-> 0, force |-> FALSE,
     name |-> Lit(""), sequential |-> FALSE, extension |-> Lit(""), units |-> <<>>,
     database_url |-> Lit(""), stderr |-> <<>>, order |-> <<>>]

Called(op, args) == [op |-> op, args |-> args]

\* No call is in progress: the facade is synchronous and single-threaded, so
\* a call starts only when the one before it has handed over its result.
Idle == Called("idle", NoArgs)

Apply(c, o) ==
    /\ call' = c
    /\ procs' = o.procs
    /\ nscans' = o.nscans
    /\ ret' = o.ret

Up ==
    /\ call = Idle
    /\ wrapper.state = "ready"
    /\ \E steps \in StepsArgs, r \in PrimaryOutcomes, q \in QueryOutcomes :
           Apply(Called("up", [NoArgs EXCEPT !.steps = steps]), up(steps, r, q))
    /\ UNCHANGED <<files, wrapper, tracked, forced>>

Down ==
    /\ call = Idle
    /\ wrapper.state = "ready"
    /\ \E steps \in StepsArgs, r \in PrimaryOutcomes, q \in QueryOutcomes :
           Apply(Called("down", [NoArgs EXCEPT !.steps = steps]), down(steps, r, q))
    /\ UNCHANGED <<files, wrapper, tracked, forced>>

Goto ==
    /\ call = Idle
    /\ wrapper.state = "ready"
    /\ \E v \in VersionArgs, r \in PrimaryOutcomes, q \in QueryOutcomes :
           Apply(Called("goto", [NoArgs EXCEPT !.version = v]), goto(v, r, q))
    /\ UNCHANGED <<files, wrapper, tracked, forced>>

Force ==
    /\ call = Idle
    /\ wrapper.state = "ready"
    /\ \E v \in VersionArgs, r \in PrimaryOutcomes, q \in QueryOutcomes :
           Apply(Called("force", [NoArgs EXCEPT !.version = v]), force(v, r, q))
    /\ UNCHANGED <<files, wrapper, tracked, forced>>

Drop ==
    /\ call = Idle
    /\ wrapper.state = "ready"
    /\ \E f \in BOOLEAN, r \in PrimaryOutcomes, q \in QueryOutcomes :
           Apply(Called("drop", [NoArgs EXCEPT !.force = f]), drop(f, r, q))
    /\ UNCHANGED <<files, wrapper, tracked, forced>>

Version ==
    /\ call = Idle
    /\ wrapper.state = "ready"
    /\ \E q \in VersionOutcomes :
           Apply(Called("version", NoArgs), version(q))
    /\ UNCHANGED <<files, wrapper, tracked, forced>>

Status ==
    /\ call = Idle
    /\ wrapper.state = "ready"
    /\ \E q \in VersionOutcomes :
           Apply(Called("status", NoArgs), status(q))
    /\ UNCHANGED <<files, wrapper, tracked, forced>>

FindGaps ==
    /\ call = Idle
    /\ wrapper.state = "ready"
    /\ \E l \in UnitLists :
           Apply(Called("find_gaps", [NoArgs EXCEPT !.units = l]),
                 Outcome(ReturnGaps(find_gaps(l)), <<>>, 0))
    /\ UNCHANGED <<files, wrapper, tracked, forced>>

\* order is the order in which the glob of this call yields the files
ListMigrations ==
    /\ call = Idle
    /\ wrapper.state = "ready"
    /\ \E order \in Orders(files) :
           Apply(Called("list_migrations", [NoArgs EXCEPT !.order = order]),
                 list_migrations(scan(order)))
    /\ UNCHANGED <<files, wrapper, tracked, forced>>

ValidateMigrations ==
    /\ call = Idle
    /\ wrapper.state = "ready"
    /\ \E scanned \in Scans(files) :
           Apply(Called("validate_migrations", NoArgs), validate_migrations(files, scanned))
    /\ UNCHANGED <<files, wrapper, tracked, forced>>

\* The create subcommand runs between the call and the scans: the files it
\* writes (made) are in the directory when create scans it.
Create ==
    /\ call = Idle
    /\ wrapper.state = "ready"
    /\ \E name \in {Lit("test_migration")}, sequential \in BOOLEAN,
          extension \in {Lit("sql")}, r \in CreateOutcomes, made \in CreatedSets :
           /\ r.raised => made = {}
           /\ Cardinality(files \cup made) <= MaxFiles
           /\ files' = files \cup made
           /\ \E scan1, scan2 \in Scans(files \cup made) :
                  Apply(Called("create", [NoArgs EXCEPT !.name = name,
                                                       !.sequential = sequential,
                                                       !.extension = extension]),
                        create(name, sequential, extension, r, scan1, scan2))
    /\ UNCHANGED <<wrapper, tracked, forced>>

\* the caller has taken the result of the last call
Finish ==
    /\ call # Idle
    /\ call' = Idle
    /\ procs' = <<>>
    /\ nscans' = 0
    /\ ret' = NoResult
    /\ UNCHANGED <<files, wrapper, tracked, forced>>

\* __init__ with the binary looked up before the configuration is validated
new_checks_binary_first(url, path_exists, found) ==
    IF ~found
    THEN Raise("MigrateNotFoundError",
               Fmt("migrate command not found at: ", <<"m","i","g","r","a","t","e">>))
    ELSE IF ~Truthy(url) THEN Raise("ValueError", Lit("Database URL is required"))
    ELSE IF ~path_exists
    THEN Raise("ValueError", Fmt("Migrations path does not exist: ", <<"/","t","m","p","/","m","i","g","r","a","t","i","o","n","s">>))
    ELSE ReturnWrapper

\* MigrateWrapper.__init__ on a configuration with connection string url,
\* when the migrations directory exists or not (path_exists) and
\* shutil.which finds the binary or not (found)
new(url, path_exists, found) ==
    IF ~Truthy(url) THEN Raise("ValueError", Lit("Database URL is required"))
    ELSE IF ~path_exists
    THEN Raise("ValueError", Fmt("Migrations path does not exist: ", <<"/","t","m","p","/","m","i","g","r","a","t","i","o","n","s">>))
    ELSE IF ~found
    THEN Raise("MigrateNotFoundError",
               Fmt("migrate command not found at: ", <<"m","i","g","r","a","t","e">>))
    ELSE ReturnWrapper

\* the connection strings a configuration is given
DatabaseUrls == {Lit(""), database_url}

\* the wrapper before its construction, and the one that Spec and SpecScan start from
Unconstructed ==
    [state |-> "none", database_url |-> Lit(""), path_exists |-> FALSE, found |-> FALSE]

Ready ==
    [state |-> "ready", database_url |-> database_url, path_exists |-> TRUE, found |-> TRUE]

\* MigrateWrapper(config): an __init__ that raises leaves no wrapper to call
New ==
    /\ call = Idle
    /\ wrapper.state = "none"
    /\ \E url \in DatabaseUrls, path_exists \in BOOLEAN, found \in BOOLEAN :
           /\ Apply(Called("__init__", [NoArgs EXCEPT !.database_url = url]),
                    Outcome(new(url, path_exists, found), <<>>, 0))
           /\ wrapper' = [state |-> IF new(url, path_exists, found).kind = "return"
                                    THEN "ready" ELSE "failed",
                          database_url |-> url, path_exists |-> path_exists,
                          found |-> found]
    /\ UNCHANGED <<files, tracked, forced>>

\* command.parse_error(stderr) called on its own
ParseError ==
    /\ call = Idle
    /\ wrapper.state = "ready"
    /\ \E stderr \in ParseTexts :
           Apply(Called("parse_error", [NoArgs EXCEPT !.stderr = stderr]),
                 Outcome(ReturnErrorMsg(parse_error(stderr)), <<>>, 0))
    /\ UNCHANGED <<files, wrapper, tracked, forced>>

\* a wrapper constructed on an empty migrations directory, nothing called yet
Init ==
    /\ wrapper = Ready
    /\ files = {}
    /\ call = Idle
    /\ procs = <<>>
    /\ nscans = 0
    /\ ret = NoResult
    /\ tracked = NoMigration
    /\ forced = NoForce

Next ==
    Up \/ Down \/ Goto \/ Force \/ Drop \/ Version \/ Status \/ FindGaps \/ ParseError
       \/ Finish

\* the operations that run the tool, and find_gaps on any list of units
Spec == Init /\ [][Next]_vars

\* a wrapper constructed on any migrations directory, nothing called yet
InitScan ==
    /\ wrapper = Ready
    /\ files \in Directories
    /\ call = Idle
    /\ procs = <<>>
    /\ nscans = 0
    /\ ret = NoResult
    /\ tracked = NoMigration
    /\ forced = NoForce

NextScan == Create \/ ListMigrations \/ ValidateMigrations \/ Finish

\* the operations that read the migrations directory
SpecScan == InitScan /\ [][NextScan]_vars

\* the names of a migrations directory that holds as many files as are followed
FullDirectory ==
    LET names == <<F_1a_up, F_1a_down, F_readme, F_2c_down, F_3c_up, F_3d_down,
                   F_5e_up, F_001b_up>>
    IN  {names[i] : i \in 1..MaxFiles}

\* no wrapper yet; the directory is full, so that what create adds to it is
\* left to SpecScan
InitNew ==
    /\ wrapper = Unconstructed
    /\ files = FullDirectory
    /\ call = Idle
    /\ procs = <<>>
    /\ nscans = 0
    /\ ret = NoResult
    /\ tracked = NoMigration
    /\ forced = NoForce

NextNew ==
    New \/ Create \/ Up \/ Down \/ Goto \/ Force \/ Drop \/ Version \/ Status \/ Finish

\* the construction of a wrapper, then the operations that run the tool
SpecNew == InitNew /\ [][NextNew]_vars

\* the operations called on a wrapper whose tool tracks (version, dirty): the
\* follow-up version query sees the state the operation's subcommand left
UpTool ==
    /\ call = Idle
    /\ wrapper.state = "ready"
    /\ \E steps \in StepsArgs, t \in ToolUp(tracked) :
           \E q \in VersionReports(t.db) :
               /\ Apply(Called("up", [NoArgs EXCEPT !.steps = steps]), up(steps, t.result, q))
               /\ tracked' = t.db
    /\ forced' = Touch(forced)
    /\ UNCHANGED <<files, wrapper>>

DownTool ==
    /\ call = Idle
    /\ wrapper.state = "ready"
    /\ \E steps \in StepsArgs, t \in ToolDown(tracked) :
           \E q \in VersionReports(t.db) :
               /\ Apply(Called("down", [NoArgs EXCEPT !.steps = steps]),
                        down(steps, t.result, q))
               /\ tracked' = t.db
    /\ forced' = Touch(forced)
    /\ UNCHANGED <<files, wrapper>>

GotoTool ==
    /\ call = Idle
    /\ wrapper.state = "ready"
    /\ \E v \in VersionArgs :
           \E t \in ToolGoto(tracked, v) :
               \E q \in VersionReports(t.db) :
                   /\ Apply(Called("goto", [NoArgs EXCEPT !.version = v]),
                            goto(v, t.result, q))
                   /\ tracked' = t.db
    /\ forced' = Touch(forced)
    /\ UNCHANGED <<files, wrapper>>

ForceTool ==
    /\ call = Idle
    /\ wrapper.state = "ready"
    /\ \E v \in VersionArgs :
           \E t \in ToolForce(tracked, v) :
               \E q \in VersionReports(t.db) :
                   LET o == force(v, t.result, q)
                   IN  /\ Apply(Called("force", [NoArgs EXCEPT !.version = v]), o)
                       /\ tracked' = t.db
                       /\ forced' =
                              IF o.ret.kind = "return" /\ o.ret.result[1].success
                              THEN IF v > 0
                                   THEN [version |-> Some(v), pending |-> TRUE,
                                         touched |-> FALSE,
                                         from_dirty |-> tracked.dirty /\ forced.seen_dirty,
                                         seen_dirty |-> FALSE]
                                   ELSE NoForce
                              ELSE Touch(forced)
    /\ UNCHANGED <<files, wrapper>>

DropTool ==
    /\ call = Idle
    /\ wrapper.state = "ready"
    /\ \E f \in BOOLEAN, t \in ToolDrop(tracked) :
           \E q \in VersionReports(t.db) :
               /\ Apply(Called("drop", [NoArgs EXCEPT !.force = f]), drop(f, t.result, q))
               /\ tracked' = t.db
    /\ forced' = Touch(forced)
    /\ UNCHANGED <<files, wrapper>>

VersionTool ==
    /\ call = Idle
    /\ wrapper.state = "ready"
    /\ \E q \in VersionReports(tracked) :
           Apply(Called("version", NoArgs), version(q))
    /\ UNCHANGED <<files, wrapper, tracked, forced>>

StatusTool ==
    /\ call = Idle
    /\ wrapper.state = "ready"
    /\ \E q \in VersionReports(tracked) :
           LET o == status(q)
           IN  /\ Apply(Called("status", NoArgs), o)
               /\ forced' = IF o.ret.kind = "return" /\ o.ret.info[1].dirty
                            THEN [forced EXCEPT !.seen_dirty = TRUE]
                            ELSE forced
    /\ UNCHANGED <<files, wrapper, tracked>>

\* the caller takes the result; a status taken is no longer to come
FinishTool ==
    /\ call # Idle
    /\ call' = Idle
    /\ procs' = <<>>
    /\ nscans' = 0
    /\ ret' = NoResult
    /\ forced' = IF call.op = "status"
                 THEN [forced EXCEPT !.version = None, !.pending = FALSE,
                                     !.touched = FALSE, !.from_dirty = FALSE]
                 ELSE forced
    /\ UNCHANGED <<files, wrapper, tracked>>

\* a wrapper on a database to which no migration is applied
InitTool ==
    /\ wrapper = Ready
    /\ files = {}
    /\ call = Idle
    /\ procs = <<>>
    /\ nscans = 0
    /\ ret = NoResult
    /\ tracked = NoMigration
    /\ forced = NoForce

NextTool ==
    UpTool \/ DownTool \/ GotoTool \/ ForceTool \/ DropTool \/ VersionTool \/ StatusTool
        \/ FinishTool

\* the operations that run the tool, on a tool that tracks (version, dirty)
SpecTool == InitTool /\ [][NextTool]_vars

(***************************************************************************)
(* Properties.  They read the last call (call), its first process          *)
(* (Primary) and its result (ret).                                         *)
(***************************************************************************)
\* the outcome of the call's own subcommand
Primary == procs[1].result

\* the call started its subcommand and the subcommand ran to an exit code
Ran(ops) == call.op \in ops /\ ~Primary.raised

\* the word w (in lower case) occurs in s in some letter case
HasAnyCase(s, w) ==
    \E i \in 1..(Len(s) - Len(w) + 1) :
        \A k \in 1..Len(w) : s[i + k - 1] \in {w[k]} \cup {u \in Range(UpperSeq) : LowerChar(u) = w[k]}

RaisedDirty == ret.kind = "raise" /\ ret.exc = "MigrateDirtyError"

\* C1 as claimed: up, down and goto raise MigrateDirtyError whenever the
\* stderr text of the process contains "dirty" in any letter case.
C1_DirtyStderrAlwaysRaises ==
    (Ran({"up", "down", "goto"}) /\ HasAnyCase(Primary.stderr, T_dirty)) => RaisedDirty

\* C1 as amended: up, down and goto raise MigrateDirtyError whenever the
\* process exits non-zero and its stderr text contains "dirty" in any letter
\* case, the same for the three operations; when the process exits 0 they
\* raise no MigrateDirtyError, whatever stderr holds.
C1_DirtyStderrRaisesOnFailure ==
    Ran({"up", "down", "goto"}) =>
        (RaisedDirty <=> (Primary.returncode # 0 /\ HasAnyCase(Primary.stderr, T_dirty)))

C1_Witness ==
    /\ Ran({"goto"})
    /\ Primary.stderr = T_errdirty
    /\ RaisedDirty

\* C2: force never raises MigrateDirtyError, whatever the exit code and the
\* stderr text; when the force subcommand exits 0 the result has success=true
\* and dirty=false.
C2_ForceNeverRaisesDirty ==
    call.op = "force" =>
        /\ ~RaisedDirty
        /\ (~Primary.raised /\ Primary.returncode = 0) =>
               (ret.kind = "return" /\ ret.result[1].success /\ ~ret.result[1].dirty)

C2_Witness ==
    /\ Ran({"force"})
    /\ Primary.returncode # 0
    /\ HasAnyCase(Primary.stderr, T_dirty)
    /\ ret.kind = "return"
    /\ ~ret.result[1].success

\* the version a call of version() or status() returned
ReportedVersion == IF call.op = "status" THEN ret.info[1].version ELSE ret.version

\* C3: version() and status() read the standard-output text whenever it is
\* non-empty after trimming, and the standard-error text only when the
\* standard output is empty after trimming; so with a number in both
\* streams the number of standard output is returned.
C3_StdoutBeforeStderr ==
    (Ran({"version", "status"}) /\ Primary.returncode = 0) =>
        /\ Strip(Primary.stdout) # <<>> => ReportedVersion = SearchVersion(Primary.stdout)
        /\ Strip(Primary.stdout) = <<>> => ReportedVersion = SearchVersion(Primary.stderr)

C3_Witness ==
    /\ Ran({"version"})
    /\ Primary.returncode = 0
    /\ Primary.stdout = T_2
    /\ Primary.stderr = T_1
    /\ ret.version = Some(2)

\* the first run of digits of s as a number, None when s has no digit
FirstDigitRun(s) ==
    LET ds == {i \in DOMAIN s : IsDigit(s[i])}
    IN  IF ds = {} THEN None
        ELSE LET lo == CHOOSE i \in ds : \A j \in ds : i <= j
                 hi == CHOOSE i \in lo..Len(s) :
                           /\ \A k \in lo..i : IsDigit(s[k])
                           /\ (i = Len(s) \/ ~IsDigit(s[i + 1]))
             IN  Some(ParseInt(SubSeq(s, lo, hi)))

\* the text version() and status() are said to read
SelectedText(r) == IF Strip(r.stdout) # <<>> THEN r.stdout ELSE r.stderr

\* C4 as claimed: version() never raises; it returns the first run of digits
\* of the selected output text, for every text, and None when the text has
\* no digit or the exit code is non-zero.
C4_VersionIsFirstDigitRun ==
    call.op = "version" =>
        /\ ret.kind = "return"
        /\ ~Primary.raised =>
               ret.version = IF Primary.returncode = 0
                           THEN FirstDigitRun(SelectedText(Primary))
                           ELSE None

\* C5 as claimed: status() returns the version version() returns for the
\* same process result, dirty=true iff the stdout or stderr text contains
\* "dirty" in any letter case, and version=None, dirty=false on a non-zero
\* exit.
C5_StatusDirtyFromOutput ==
    Ran({"status"}) =>
        /\ ret.info[1].version = version(Primary).ret.version
        /\ Primary.returncode = 0 =>
               (ret.info[1].dirty <=> (\/ HasAnyCase(Primary.stdout, T_dirty)
                                     \/ HasAnyCase(Primary.stderr, T_dirty)))
        /\ Primary.returncode # 0 => (ret.info[1].version = None /\ ~ret.info[1].dirty)

\* C5 as amended: status() returns the version version() returns for the
\* same process result; dirty=true iff the process exits 0 and the selected
\* text (stdout if non-empty after trimming, otherwise stderr) contains
\* "dirty" in any letter case; is_clean is the negation of dirty; on a
\* non-zero exit version=None and dirty=false.
C5_StatusDirtyFromSelectedText ==
    Ran({"status"}) =>
        /\ ret.kind = "return"
        /\ ret.info[1].version = version(Primary).ret.version
        /\ ret.info[1].dirty <=> (/\ Primary.returncode = 0
                                /\ HasAnyCase(SelectedText(Primary), T_dirty))
        /\ is_clean(ret.info[1]) <=> ~ret.info[1].dirty
        /\ Primary.returncode # 0 => (ret.info[1].version = None /\ ~ret.info[1].dirty)

C5_Witness ==
    /\ Ran({"status"})
    /\ Primary.returncode = 0
    /\ Primary.stdout = T_2Dirty
    /\ ret.info[1] = DatabaseInfo(Some(2), TRUE)

(***************************************************************************)
(* Properties of the operations that read the migrations directory.        *)
(***************************************************************************)
\* the numeric versions for which directory d holds a file of a direction
VersionsOf(d, direction) ==
    {MatchMigration(f)[1].version :
        f \in {g \in Glob(d) : MatchMigration(g) # <<>>
                               /\ MatchMigration(g)[1].direction = direction}}

\* C6: every unit scan()/list_migrations() returns has an up-file that is in
\* the directory, and a version with a down-file only is never returned.
C6_UnitsHaveUpFile ==
    call.op = "list_migrations" =>
        /\ \A i \in DOMAIN ret.listing :
               /\ ret.listing[i].up_file # <<>>
               /\ ret.listing[i].up_file[1] \in files
               /\ ret.listing[i].version \in VersionsOf(files, "up")
        /\ \A v \in VersionsOf(files, "down") \ VersionsOf(files, "up") :
               \A i \in DOMAIN ret.listing : ret.listing[i].version # v

C6_Witness ==
    /\ call.op = "list_migrations"
    /\ files = {F_1a_up, F_2c_down, F_3d_down}
    /\ Len(ret.listing) = 1
    /\ ret.listing[1].version = 1

\* C7: find_gaps(units) is, in ascending order, exactly the integers from the
\* smallest to the largest version of the list that are the version of no
\* unit; so [] for an empty list, for one unit and for a contiguous list.
C7_GapsAreMissingVersions ==
    call.op = "find_gaps" =>
        LET units == call.args.units
            versions == {units[i].version : i \in DOMAIN units}
            missing == {v \in 1..MaxUnitVersion :
                            /\ v \notin versions
                            /\ \E a, b \in versions : a <= v /\ v <= b}
        IN  /\ Range(ret.gaps) = missing
            /\ \A i, j \in DOMAIN ret.gaps : i < j => ret.gaps[i] < ret.gaps[j]
            /\ Cardinality(versions) <= 1 => ret.gaps = <<>>

C7_Witness ==
    /\ call.op = "find_gaps"
    /\ call.args.units = <<Unit(3), Unit(1)>>
    /\ ret.gaps = <<2>>

\* the units of a list for whose version directory d holds no down-file
LackDown(units, d) ==
    Filter(units, {i \in DOMAIN units : units[i].version \notin VersionsOf(d, "down")})

\* C8: validate_migrations() returns valid=true iff gaps is empty and every
\* scanned unit has its up-file and its down-file; total_migrations is the
\* number of scanned units; missing_down_files lists exactly the units
\* (version, name) without a down-file; an empty directory is valid, total 0.
C8_ValidIffNoGapsNoMissingDown ==
    call.op = "validate_migrations" =>
        \E units \in Scans(files) :
            LET v == ret.validation[1]
                lacking == LackDown(units, files)
            IN  /\ v.total_migrations = Len(units)
                /\ v.missing_down_files =
                       [i \in DOMAIN lacking |->
                           [version |-> lacking[i].version, name |-> lacking[i].name]]
                /\ v.valid <=>
                       /\ v.gaps = <<>>
                       /\ \A i \in DOMAIN units :
                              /\ units[i].version \in VersionsOf(files, "up")
                              /\ units[i].version \in VersionsOf(files, "down")
                /\ files = {} => (v.valid /\ v.total_migrations = 0)

C8_Witness ==
    /\ call.op = "validate_migrations"
    /\ files = {F_1a_up, F_1a_down, F_3c_up}
    /\ ~ret.validation[1].valid
    /\ ret.validation[1].gaps = <<2>>
    /\ Len(ret.validation[1].missing_down_files) = 1

\* the largest element of a non-empty set of integers
Max(S) == CHOOSE v \in S : \A w \in S : w <= v

\* C9 as claimed: when the create subcommand exits 0, create returns the
\* unit whose version was not in the directory before the call; only when
\* sequential is set and no unit is new does it return the unit of the
\* highest version; it fails when the directory holds no unit.
C9_CreateReturnsNewUnit ==
    [][(call'.op = "create" /\ ~procs'[1].result.raised
                            /\ procs'[1].result.returncode = 0) =>
          LET now == VersionsOf(files', "up")
              fresh == now \ VersionsOf(files, "up")
          IN  /\ fresh # {} => ret'.kind = "return"
              /\ ret'.kind = "return" =>
                     \/ ret'.migration[1].version \in fresh
                     \/ /\ call'.args.sequential
                        /\ fresh = {}
                        /\ ret'.migration[1].version = Max(now)
              /\ now = {} => ret'.kind = "raise"]_vars

\* C10: create raises MigrateError, and returns no Migration, in exactly two
\* cases: the create subcommand exits non-zero, and then the message carries
\* the stderr text and the directory is not scanned; or it exits 0 and the
\* scan finds no unit.
C10_CreateRaisesInTwoCases ==
    call.op = "create" =>
        /\ (ret.kind = "raise" /\ ret.exc = "MigrateError") <=>
               /\ ~Primary.raised
               /\ (Primary.returncode # 0 \/ VersionsOf(files, "up") = {})
        /\ ret.kind = "raise" => ret.migration = <<>>
        /\ (~Primary.raised /\ Primary.returncode # 0) =>
               /\ ret.message = Fmt("Failed to create migration: ", Primary.stderr)
               /\ nscans = 0
        /\ (~Primary.raised /\ Primary.returncode = 0) =>
               (ret.kind = "return" <=> ret.migration # <<>>)

C10_Witness ==
    /\ call.op = "create"
    /\ ~Primary.raised
    /\ Primary.returncode = 0
    /\ files = {F_2c_down, F_readme}
    /\ ret.kind = "raise"
    /\ ret.exc = "MigrateError"
    /\ nscans = 2

(***************************************************************************)
(* Properties of the failure results and of the error classification.      *)
(***************************************************************************)
\* the message an operation gives when stderr classifies to nothing
DefaultMessage(op) ==
    CASE op = "up" -> Lit("Migration failed")
      [] op = "down" -> Lit("Rollback failed")
      [] op = "goto" -> Lit("Goto failed")
      [] op = "force" -> Lit("Force failed")
      [] op = "drop" -> Lit("Drop failed")

\* all of s is whitespace
IsBlank(s) == \A i \in DOMAIN s : IsSpace(s[i])

\* C11 as claimed: for up, down, goto, force and drop, when the subcommand
\* exits non-zero and no dirty-state error applies, the operation returns,
\* and never raises, a MigrationResult with success=false and a non-empty
\* message: the parse_error classification of stderr, or the operation's
\* default when stderr is empty or only whitespace.
C11_FailureIsReturned ==
    (/\ Ran({"up", "down", "goto", "force", "drop"})
     /\ Primary.returncode # 0
     /\ ~(call.op \in {"up", "down", "goto"} /\ HasAnyCase(Primary.stderr, T_dirty)))
    => /\ ret.kind = "return"
       /\ ret.type = "MigrationResult"
       /\ ~ret.result[1].success
       /\ Truthy(ret.result[1].message)
       /\ ret.result[1].message =
              IF IsBlank(Primary.stderr) THEN DefaultMessage(call.op)
              ELSE CHOOSE m \in parse_error(Primary.stderr) : TRUE

\* the phrases parse_error looks for, in the order of the claim, and the
\* message of each
ErrorPhrases ==
    << [phrase |-> <<"d","i","r","t","y"," ","d","a","t","a","b","a","s","e">>,
        message |-> "Database is in dirty state"],
       [phrase |-> <<"n","o"," ","m","i","g","r","a","t","i","o","n">>,
        message |-> "No migrations found"],
       [phrase |-> <<"a","l","r","e","a","d","y"," ","a","t"," ","t","h","e"," ","l","a","t","e","s","t">>,
        message |-> "Already at latest version"],
       [phrase |-> <<"f","i","l","e"," ","d","o","e","s"," ","n","o","t"," ","e","x","i","s","t">>,
        message |-> "Migration file not found"],
       [phrase |-> <<"c","o","n","n","e","c","t","i","o","n"," ","r","e","f","u","s","e","d">>,
        message |-> "Database connection failed"] >>

\* the smallest element of a non-empty set of integers
Min(S) == CHOOSE v \in S : \A w \in S : v <= w

\* t is s without its leading and trailing whitespace
IsTrimOf(t, s) ==
    \E i \in 1..(Len(s) + 1), j \in 0..Len(s) :
        /\ t = SubSeq(s, i, j)
        /\ \A k \in (1..(i - 1)) \cup ((j + 1)..Len(s)) : IsSpace(s[k])
        /\ t # <<>> => (~IsSpace(t[1]) /\ ~IsSpace(t[Len(t)]))

\* C12: parse_error(stderr) returns the message of the earliest phrase, in
\* the order "dirty database", "no migration", "already at the latest",
\* "file does not exist", "connection refused", that occurs in stderr in
\* any letter case; when none occurs it returns stderr trimmed, or nothing
\* if stderr is empty.
C12_ParseErrorFirstMatchWins ==
    call.op = "parse_error" =>
        LET stderr == call.args.stderr
            hits == {i \in DOMAIN ErrorPhrases : HasAnyCase(stderr, ErrorPhrases[i].phrase)}
        IN  IF hits # {}
            THEN ret.error_msg = {Lit(ErrorPhrases[Min(hits)].message)}
            ELSE IF stderr = <<>> THEN ret.error_msg = {}
            ELSE \E m \in ret.error_msg :
                     /\ ret.error_msg = {m}
                     /\ m.lit = ""
                     /\ IsTrimOf(m.txt, stderr)

C12_Witness ==
    /\ call.op = "parse_error"
    /\ call.args.stderr =
           <<"n","o"," ","m","i","g","r","a","t","i","o","n">>
               \o <<"D","i","r","t","y"," ","d","a","t","a","b","a","s","e">>
    /\ ret.error_msg = {Lit("Database is in dirty state")}

(***************************************************************************)
(* Properties of the results of up, down, goto, force and drop and of the  *)
(* arguments they pass.                                                    *)
(***************************************************************************)
\* the arguments of the call's own process after the subcommand
OwnArguments == SubSeq(procs[1].args, 7, Len(procs[1].args))

\* what version() makes of the outcome of the call's second process
Requeried == version(procs[2].result).ret.version

\* the call ran a second process, the version subcommand, and raised what
\* that process raised if it could not be started
RequeriedAfter ==
    /\ Len(procs) = 2
    /\ procs[2].args[6] = Lit("version")
    /\ ret.kind = "raise" <=> procs[2].result.raised

\* t is the decimal numeral of the integer n, as str(n) writes it
IsDecimalOf(t, n) ==
    LET digits == IF n < 0 THEN Tail(t) ELSE t
    IN  /\ t # <<>>
        /\ n < 0 <=> t[1] = "-"
        /\ digits # <<>>
        /\ \A i \in DOMAIN digits : IsDigit(digits[i])
        /\ Len(digits) > 1 => digits[1] # "0"
        /\ ParseInt(digits) = (IF n < 0 THEN -n ELSE n)

\* C13: when the up (resp. down) subcommand exits 0, the result returned has
\* success=true, dirty=false, the message "Migrations applied successfully"
\* (resp. "Migrations rolled back successfully") and the version that the
\* version subcommand, run after it, reports.
C13_UpDownSuccessRequeries ==
    (Ran({"up", "down"}) /\ Primary.returncode = 0) =>
        /\ RequeriedAfter
        /\ ret.kind = "return" =>
               /\ ret.type = "MigrationResult"
               /\ ret.result[1].success
               /\ ~ret.result[1].dirty
               /\ ret.result[1].message =
                      (IF call.op = "up" THEN Lit("Migrations applied successfully")
                       ELSE Lit("Migrations rolled back successfully"))
               /\ ret.result[1].version = Requeried

C13_Witness ==
    /\ Ran({"up"})
    /\ Primary.returncode = 0
    /\ Primary.stderr = T_logdirty
    /\ procs[2].result = Completed(0, T_version3, <<>>)
    /\ ret.kind = "return"
    /\ ret.result[1].version = {3}
    /\ ~ret.result[1].dirty

\* C14: when goto(v) or force(v) exits 0, the result's version is v if
\* v > 0 and none otherwise, and the message is "Migrated to version v"
\* (resp. "Forced version to v") with v in decimal.
C14_GotoForceReportRequested ==
    (Ran({"goto", "force"}) /\ Primary.returncode = 0) =>
        /\ ret.kind = "return"
        /\ ret.type = "MigrationResult"
        /\ ret.result[1].success
        /\ ret.result[1].version = (IF call.args.version > 0 THEN {call.args.version} ELSE {})
        /\ ret.result[1].message.lit =
               (IF call.op = "goto" THEN "Migrated to version " ELSE "Forced version to ")
        /\ IsDecimalOf(ret.result[1].message.txt, call.args.version)

C14_Witness ==
    /\ Ran({"goto"})
    /\ Primary.returncode = 0
    /\ call.args.version = 0
    /\ ret.result[1].version = {}
    /\ ret.result[1].message = Fmt("Migrated to version ", <<"0">>)

\* C15: down(steps) passes the decimal string of steps whenever steps is
\* given, 0 included, and "-all" exactly when steps is absent; up(steps)
\* passes the steps string when given and nothing otherwise.
C15_StepsArguments ==
    call.op \in {"up", "down"} =>
        /\ procs[1].args[6] = Lit(call.op)
        /\ \A n \in call.args.steps :
               /\ Len(OwnArguments) = 1
               /\ OwnArguments[1].lit = ""
               /\ IsDecimalOf(OwnArguments[1].txt, n)
        /\ call.args.steps = {} =>
               OwnArguments = (IF call.op = "down" THEN <<Lit("-all")>> ELSE <<>>)
        /\ call.op = "down" =>
               (Lit("-all") \in Range(OwnArguments) <=> call.args.steps = {})

C15_Witness ==
    /\ call.op = "down"
    /\ call.args.steps = {0}
    /\ OwnArguments = <<Txt(<<"0">>)>>

\* C16: drop(force_flag) passes "-f" iff force_flag is set; when the
\* subcommand exits 0 the result is success=true, version=none, message
\* "Database dropped successfully"; when it exits non-zero the result
\* returned is success=false with the version that the version subcommand,
\* run after it, reports.
C16_DropResult ==
    call.op = "drop" =>
        /\ procs[1].args[6] = Lit("drop")
        /\ OwnArguments = (IF call.args.force THEN <<Lit("-f")>> ELSE <<>>)
        /\ (~Primary.raised /\ Primary.returncode = 0) =>
               /\ ret.kind = "return"
               /\ ret.type = "MigrationResult"
               /\ ret.result[1].success
               /\ ret.result[1].version = {}
               /\ ret.result[1].message = Lit("Database dropped successfully")
        /\ (~Primary.raised /\ Primary.returncode # 0) =>
               /\ RequeriedAfter
               /\ ret.kind = "return" =>
                      /\ ret.type = "MigrationResult"
                      /\ ~ret.result[1].success
                      /\ ret.result[1].version = Requeried

C16_Witness ==
    /\ call.op = "drop"
    /\ call.args.force
    /\ ~Primary.raised
    /\ Primary.returncode # 0
    /\ procs[2].result = Completed(0, T_version3, <<>>)
    /\ ret.kind = "return"
    /\ ~ret.result[1].success
    /\ ret.result[1].version = {3}

(***************************************************************************)
(* Properties of the construction and of the processes run.                *)
(***************************************************************************)
\* C17: constructing a MigrateWrapper fails with the configuration error
\* (ValueError) when the connection string is empty or the migrations
\* directory does not exist, whether or not the binary is found, and with
\* MigrateNotFoundError when the configuration is valid and the binary is
\* not found; a wrapper whose construction failed runs no process.
C17_ConstructionChecksConfigFirst ==
    /\ call.op = "__init__" =>
           LET invalid == call.args.database_url = Lit("") \/ ~wrapper.path_exists
           IN  /\ invalid => (ret.kind = "raise" /\ ret.exc = "ValueError")
               /\ (~invalid /\ ~wrapper.found) =>
                      (ret.kind = "raise" /\ ret.exc = "MigrateNotFoundError")
               /\ (~invalid /\ wrapper.found) =>
                      (ret.kind = "return" /\ ret.type = "MigrateWrapper")
               /\ ret.kind = "raise" <=> wrapper.state = "failed"
    /\ wrapper.state # "ready" => procs = <<>>

C17_Witness ==
    /\ call.op = "__init__"
    /\ call.args.database_url = Lit("")
    /\ ~wrapper.found
    /\ ret.exc = "ValueError"
    /\ wrapper.state = "failed"
    /\ procs = <<>>

\* the operations that talk to the tool
ToolOps == {"create", "up", "down", "goto", "force", "drop", "version", "status"}

\* the subcommand of an operation
Subcommand(op) == IF op = "status" THEN "version" ELSE op

\* C18 as claimed: every operation that talks to the tool runs exactly one
\* external process per call, on every path.
C18_OneProcessPerCall ==
    call.op \in ToolOps => Len(procs) = 1

\* C18: every operation that talks to the tool runs one process for its own
\* subcommand, and one more, the version subcommand, exactly when that
\* process ran and the result reports the current version: up and down on
\* exit 0, and up, down, goto, force and drop on a non-zero exit that is not
\* raised as a dirty-state error.
C18_OneProcessThenRequery ==
    call.op \in ToolOps =>
        LET requery ==
                /\ ~Primary.raised
                /\ \/ call.op \in {"up", "down"} /\ Primary.returncode = 0
                   \/ /\ call.op \in {"up", "down", "goto"}
                      /\ Primary.returncode # 0
                      /\ ~HasAnyCase(Primary.stderr, T_dirty)
                   \/ call.op \in {"force", "drop"} /\ Primary.returncode # 0
        IN  /\ Len(procs) = (IF requery THEN 2 ELSE 1)
            /\ procs[1].args[6] = Lit(Subcommand(call.op))
            /\ requery => procs[2].args[6] = Lit("version")

C18_Witness ==
    /\ call.op = "force"
    /\ ~Primary.raised
    /\ Primary.returncode # 0
    /\ HasAnyCase(Primary.stderr, T_dirty)
    /\ Len(procs) = 2
    /\ ret.kind = "return"

\* C19 as claimed: execute never raises; every failure to run the process
\* comes back as a result with an exit code.
C19_ExecuteNeverRaises ==
    \A i \in DOMAIN procs : ~procs[i].result.raised

\* the arguments operation op passes after its subcommand
IsArgumentsOf(a, op, args) ==
    CASE op \in {"up", "down"} ->
             IF args.steps # {}
             THEN /\ Len(a) = 1
                  /\ a[1].lit = ""
                  /\ \A n \in args.steps : IsDecimalOf(a[1].txt, n)
             ELSE a = (IF op = "down" THEN <<Lit("-all")>> ELSE <<>>)
      [] op \in {"goto", "force"} ->
             /\ Len(a) = 1
             /\ a[1].lit = ""
             /\ IsDecimalOf(a[1].txt, args.version)
      [] op = "drop" -> a = (IF args.force THEN <<Lit("-f")>> ELSE <<>>)
      [] op = "create" ->
             a = <<Lit("-ext"), args.extension>>
                    \o (IF args.sequential THEN <<Lit("-seq")>> ELSE <<>>)
                    \o <<args.name>>
      [] OTHER -> a = <<>>

\* C20: every process run by any operation has an argument list that starts
\* with the binary, "-database", the connection string of the configuration
\* unchanged, "-path", the migrations directory, and goes on with the
\* subcommand of the operation that runs it and that subcommand's arguments.
C20_ArgumentPrefix ==
    \A i \in DOMAIN procs :
        LET a == procs[i].args
        IN  /\ Len(a) >= 6
            /\ SubSeq(a, 1, 5) = <<Lit("migrate"), Lit("-database"), wrapper.database_url,
                                   Lit("-path"), Lit("/tmp/migrations")>>
            /\ wrapper.database_url = Lit("sqlite://test.db")
            /\ IF i = 1
               THEN /\ a[6] = Lit(Subcommand(call.op))
                    /\ IsArgumentsOf(SubSeq(a, 7, Len(a)), call.op, call.args)
               ELSE a = SubSeq(a, 1, 5) \o <<Lit("version")>>

C20_Witness ==
    /\ call.op = "create"
    /\ call.args.sequential
    /\ procs[1].args =
           <<Lit("migrate"), Lit("-database"), Lit("sqlite://test.db"), Lit("-path"),
             Lit("/tmp/migrations"), Lit("create"), Lit("-ext"), Lit("sql"), Lit("-seq"),
             Lit("test_migration")>>

(***************************************************************************)
(* Properties of scan: completeness, repetition, order, names.             *)
(***************************************************************************)
\* the files of directory d that match the pattern with numeric version v
FilesOf(d, v) ==
    {f \in Glob(d) : MatchMigration(f) # <<>> /\ MatchMigration(f)[1].version = v}

\* the versions of a list of units, in its order
VersionList(units) == [i \in DOMAIN units |-> units[i].version]

\* C21: for every version V of which the directory holds a file matching
\* the pattern with direction up, scan()/list_migrations() returns a unit
\* of version V.
C21_ScanIsComplete ==
    call.op = "list_migrations" =>
        \A v \in VersionsOf(files, "up") :
            \E i \in DOMAIN ret.listing : ret.listing[i].version = v

C21_Witness ==
    /\ call.op = "list_migrations"
    /\ files = {F_1a_up, F_001b_up, F_3c_up}
    /\ VersionList(ret.listing) = <<1, 3>>

Ambiguous(d) ==
    \E v \in VersionsOf(d, "up") :
        \E f, g \in FilesOf(d, v) :
            /\ f # g
            /\ \/ MatchMigration(f)[1].name # MatchMigration(g)[1].name
               \/ MatchMigration(f)[1].direction = MatchMigration(g)[1].direction

C23_StrictlyAscending ==
    call.op = "list_migrations" =>
        \A i, j \in DOMAIN ret.listing :
            i < j => ret.listing[i].version < ret.listing[j].version

C23_Witness ==
    /\ call.op = "list_migrations"
    /\ files = {F_5e_up, F_001b_up, F_1a_up}
    /\ VersionList(ret.listing) = <<1, 5>>

\* C25: files of one numeric version with different names make one unit,
\* without error: its name is the name of the file of that version that was
\* enumerated first, its up_file is an up-file of that version and its
\* down_file a down-file of that version, or none if there is none.
C25_NameOfFirstFileSeen ==
    call.op = "list_migrations" =>
        /\ ret.kind = "return"
        /\ \A i \in DOMAIN ret.listing :
               LET unit == ret.listing[i]
                   order == call.args.order
                   seen == {k \in DOMAIN order : order[k] \in FilesOf(files, unit.version)}
                   downs == {f \in FilesOf(files, unit.version) :
                                MatchMigration(f)[1].direction = "down"}
               IN  /\ unit.name = MatchMigration(order[Min(seen)])[1].name
                   /\ \E f \in FilesOf(files, unit.version) :
                          /\ MatchMigration(f)[1].direction = "up"
                          /\ unit.up_file = <<f>>
                   /\ IF downs = {} THEN unit.down_file = <<>>
                      ELSE \E f \in downs : unit.down_file = <<f>>

C25_Witness ==
    /\ call.op = "list_migrations"
    /\ call.args.order = <<F_3d_down, F_3c_up>>
    /\ Len(ret.listing) = 1
    /\ ret.listing[1].name = <<"d">>
    /\ ret.listing[1].up_file = <<F_3c_up>>
    /\ ret.listing[1].down_file = <<F_3d_down>>

\* C29: a version with a down-file only is never listed in
\* missing_down_files; validate_migrations() has it in gaps iff it lies
\* strictly between the smallest and the largest version with an up-file;
\* outside of that range valid, gaps and total_migrations are what they are
\* without its files.
C29_DownOnlyVersions ==
    call.op = "validate_migrations" =>
        LET v == ret.validation[1]
            ups == VersionsOf(files, "up")
        IN  \A w \in VersionsOf(files, "down") \ ups :
                LET inside == ups # {} /\ Min(ups) < w /\ w < Max(ups)
                    without == files \ FilesOf(files, w)
                IN  /\ \A i \in DOMAIN v.missing_down_files :
                           v.missing_down_files[i].version # w
                    /\ w \in Range(v.gaps) <=> inside
                    /\ ~inside =>
                           \A scanned \in Scans(without) :
                               LET u == validate_migrations(without, scanned).ret.validation[1]
                               IN  /\ u.valid = v.valid
                                   /\ u.gaps = v.gaps
                                   /\ u.total_migrations = v.total_migrations

C29_Witness ==
    /\ call.op = "validate_migrations"
    /\ files = {F_1a_up, F_2c_down, F_3c_up}
    /\ ret.validation[1].gaps = <<2>>
    /\ Len(ret.validation[1].missing_down_files) = 2
    /\ ret.validation[1].total_migrations = 2

(***************************************************************************)
(* Properties of the dirty flag and of the follow-up version query.        *)
(***************************************************************************)
\* the operations that return a MigrationResult
MutatingOps == {"up", "down", "goto", "force", "drop"}

\* C26: every MigrationResult returned by up, down, goto, force or drop, on
\* any path, has dirty=false and error=none.
C26_ReturnedResultNeverDirty ==
    (call.op \in MutatingOps /\ ret.kind = "return") =>
        /\ ret.type = "MigrationResult"
        /\ ~ret.result[1].dirty
        /\ ret.result[1].error = {}

C26_Witness ==
    /\ call.op = "drop"
    /\ ~Primary.raised
    /\ Primary.returncode # 0
    /\ Primary.stderr = T_errdirty
    /\ ret.kind = "return"
    /\ ~ret.result[1].dirty
    /\ ret.result[1].error = {}

\* C27: in up, down, goto, force and drop the version query is run only
\* after the process of the operation's own subcommand has exited; and when
\* up, down or goto raise the dirty-state error no version query is run in
\* that call.
C27_RequeryAfterPrimary ==
    call.op \in MutatingOps =>
        /\ procs[1].args[6] = Lit(call.op)
        /\ \A i \in 2..Len(procs) :
               /\ procs[i].args[6] = Lit("version")
               /\ ~procs[i - 1].result.raised
        /\ (ret.kind = "raise" /\ ret.exc = "MigrateDirtyError") =>
               (call.op \in {"up", "down", "goto"} /\ Len(procs) = 1)

C27_Witness ==
    /\ call.op = "goto"
    /\ ret.kind = "raise"
    /\ ret.exc = "MigrateDirtyError"
    /\ Primary.stderr = T_DIRTY
    /\ Len(procs) = 1

\* C28: status() takes dirty from one stream: dirty is true iff the process
\* exits 0 and the selected text (stdout if non-empty after trimming,
\* otherwise stderr) contains "dirty", in any letter case; "dirty" in the
\* other stream only, or with a non-zero exit code, gives dirty=false.
C28_DirtyFromOneStream ==
    Ran({"status"}) =>
        LET selected == IF IsBlank(Primary.stdout) THEN Primary.stderr ELSE Primary.stdout
            other == IF IsBlank(Primary.stdout) THEN Primary.stdout ELSE Primary.stderr
        IN  /\ ret.kind = "return"
            /\ ret.info[1].dirty = (Primary.returncode = 0 /\ HasAnyCase(selected, T_dirty))
            /\ (HasAnyCase(other, T_dirty) /\ ~HasAnyCase(selected, T_dirty)) =>
                   ~ret.info[1].dirty
            /\ Primary.returncode # 0 => ~ret.info[1].dirty

C28_Witness ==
    /\ Ran({"status"})
    /\ Primary.returncode = 0
    /\ Primary.stdout = T_1
    /\ Primary.stderr = T_DIRTY
    /\ ret.info[1] = DatabaseInfo(Some(1), FALSE)

\* C30 as claimed: up() and down() return success=true whenever their own
\* subcommand exits 0, whatever the follow-up version query does, and raise
\* nothing; the version is none if that query exits non-zero or yields no
\* number.
C30_SuccessWhateverTheRequery ==
    (Ran({"up", "down"}) /\ ~Primary.raised /\ Primary.returncode = 0) =>
        /\ ret.kind = "return"
        /\ ret.result[1].success
        /\ (\/ procs[2].result.returncode # 0
            \/ \A i \in DOMAIN SelectedText(procs[2].result) :
                   ~IsDigit(SelectedText(procs[2].result)[i])) =>
               ret.result[1].version = {}

(***************************************************************************)
(* Recovery from a dirty state by force.                                   *)
(***************************************************************************)
\* the status called reports the version of the last successful force, clean
ReportsForced ==
    /\ ret.kind = "return"
    /\ ret.info[1].version = forced.version
    /\ ~ret.info[1].dirty

\* C24 as claimed: with the tool tracking (version, dirty) and a successful
\* force v recording (v, clean), in every sequence of operations the first
\* status() after a successful force(v), v > 0, reports version=v and
\* dirty=false.
C24_FirstStatusAfterForce ==
    (call.op = "status" /\ forced.pending) => ReportsForced

\* C24, amended: the first status() after a successful force(v), v > 0, with
\* no up, down, goto, drop or force called between the two, reports
\* version=v and dirty=false, whatever state preceded the force.
C24_StatusRightAfterForce ==
    (call.op = "status" /\ forced.pending /\ ~forced.touched) => ReportsForced

C24_Witness ==
    /\ call.op = "status"
    /\ forced.pending
    /\ ~forced.touched
    /\ forced.from_dirty
    /\ forced.version = Some(2)
    /\ ret.kind = "return"
    /\ ret.info[1] = DatabaseInfo(Some(2), FALSE)

====
